---- MODULE Spec2Model ----
(***************************************************************************)
(* NETAI chatbot: the Conversation Store and Context Composer              *)
(* (context/manager.py), the prompt assembly (llm/prompt_engine.py) and    *)
(* the chat route that drives them (api/routes/chat.py).                   *)
(*                                                                         *)
(* Conversation objects live on a heap (conv_id, conv_messages, indexed    *)
(* by creation order); the store `conversations` maps keys to heap         *)
(* references, as the Python dict maps strings to Conversation objects.    *)
(* A request is a coroutine: the code between two awaits is one atomic     *)
(* step of the event loop, so every action below runs from one await to    *)
(* the next.                                                               *)
(*                                                                         *)
(* Spec is the store with the POST /chat route, StreamSpec the store with  *)
(* the POST /chat/stream route.  The diagnostics functions are pure and    *)
(* have specifications of their own, which draw an input and apply the     *)
(* function: HealthSpec (NetworkPath.health_status), DetectSpec (the two   *)
(* anomaly detectors), DetectAllSpec (AnomalyDetector.detect_all),         *)
(* TraceSpec (the properties of a TracerouteResult), PathChangeSpec        *)
(* (analyze_path_change) and ClassifySpec (PromptEngine.classify_query).   *)
(* AggSpec is one call of the TelemetryProcessor, a step per awaited       *)
(* sub-fetch.                                                              *)
(***************************************************************************)
EXTENDS Integers, Sequences, FiniteSets, TLC

\* ---- bounds of the model ------------------------------------------------
MaxConvs == 2          \* Conversation objects ever created
MaxCalls == 2          \* chat requests started plus direct store calls
MaxWindow == 1         \* largest configured context_window_size
MaxHistory == 2        \* largest configured max_conversation_history
MaxSamples == 6        \* longest sample list over SampleValues
MaxSteady == 11        \* longest sample list over SteadyValues
MaxPair == 5           \* longest sample lists given to detect_all
MaxHops == 3           \* longest hop list of a traceroute
MaxRoute == 2          \* longest route given to analyze_path_change
MaxWords == 2          \* longest message given to classify_query

Tasks == {1, 2}        \* concurrently running request coroutines

\* ---- values -------------------------------------------------------------
NoneId == "None"                       \* Python None for an optional id
CallerIds == {"remembered"}            \* ids a caller can invent
Uuid(n) == "uuid" \o ToString(n)       \* str(uuid.uuid4()) of the n-th object

AssistantContents == {<<"reply">>}          \* what the transport returns
\* the content tokens of the transport's stream, in order; the stream can end
\* or fail after any number of them
StreamTokens == <<<<"Check">>, <<"MTU">>>>
DirectContents == {<<"Check", "MTU">>}     \* what a direct caller records

\* the request bodies tried: message, endpoints, model override
Request(message, source, destination, model) ==
  [message |-> message, source |-> source, destination |-> destination,
   model |-> model]
Requests == {Request(<<"hello">>, NoneId, NoneId, NoneId),
             Request(<<"Fix", "anomaly">>, "sdsc", "chi", "qwen3-vl"),
             Request(<<"hello">>, "sdsc", NoneId, "gpt-5")}

None == [some |-> FALSE, val |-> <<>>]
Some(v) == [some |-> TRUE, val |-> v]
Truthy(o) == o.some /\ o.val # <<>>

VARIABLES
  context_window_size,       \* Settings.context_window_size
  max_conversation_history,  \* Settings.max_conversation_history
  conversations,             \* ContextManager._conversations: key -> object
  nconv,                     \* Conversation objects created so far
  conv_id,                   \* Conversation.id of each object
  conv_messages,             \* Conversation.messages of each object
  appended,                  \* history variable: every add_message, in order
  task,                      \* the request coroutines
  nturns,                    \* chat requests started so far
  ndirect,                   \* direct store calls made so far
  last                       \* history variable: last completed caller-level call

\* the diagnostics functions are pure: their state is an input and a result
VARIABLES
  path,                      \* a NetworkPath
  health,                    \* its health_status, "none" until it is read
  measurements,              \* the throughput samples (or the one list a detector gets)
  latency_data,              \* the latency samples of detect_all
  anomalies,                 \* the list a detector returned
  detected                   \* which detector returned it, "none" until one ran

\* a traceroute, the query to classify, and a call of the telemetry aggregator
VARIABLES
  hops,                      \* TracerouteResult.hops
  new_hops,                  \* the hops of the second result given to analyze_path_change
  traced,                    \* which traceroute function was read, "none" until one was
  trace_out,                 \* what it returned
  query,                     \* the user message given to classify_query
  template,                  \* the template name it returned, "none" until it ran
  agg,                       \* the running TelemetryProcessor call and its position
  fetches,                   \* history variable: the sub-fetches awaited, in order
  paths,                     \* the list get_network_paths returned
  bundle                     \* what the call returned or raised

chat == <<context_window_size, max_conversation_history, conversations, nconv,
          conv_id, conv_messages, appended, task, nturns, ndirect, last>>

healthvars == <<path, health>>

detectvars == <<measurements, latency_data, anomalies, detected>>

tracevars == <<hops, new_hops, traced, trace_out>>

classifyvars == <<query, template>>

aggvars == <<agg, fetches, paths, bundle>>

diag == <<healthvars, detectvars, tracevars, classifyvars, aggvars>>

vars == <<chat, diag>>

\* ---- diagnostics/perfsonar.py NetworkPath ----------------------------------
\* an optional float: None, or a number.  Numbers are integers in a unit small
\* enough for the thresholds: packet loss in tenths of a percent, latency in
\* milliseconds, throughput in tenths of a Gbps.
NoMetric == [given |-> FALSE, val |-> 0]
Metric(v) == [given |-> TRUE, val |-> v]
\* Python's truth value of an optional float: None and 0.0 are false
TruthyMetric(m) == m.given /\ m.val # 0

NetworkPath(throughput_gbps, latency_ms, packet_loss_pct) ==
  [throughput_gbps |-> throughput_gbps, latency_ms |-> latency_ms,
   packet_loss_pct |-> packet_loss_pct]
NoPath == NetworkPath(NoMetric, NoMetric, NoMetric)

\* the values tried, on both sides of every threshold
PacketLossValues == {0, 5, 6, 10, 11}      \* 0.0, 0.5, 0.6, 1.0, 1.1 %
LatencyValues == {0, 100, 101}             \* ms
ThroughputValues == {0, 9, 10}             \* 0.0, 0.9, 1.0 Gbps
Optional(values) == {NoMetric} \cup {Metric(v) : v \in values}

\* NetworkPath.health_status
health_status(self) ==
  IF TruthyMetric(self.packet_loss_pct) /\ self.packet_loss_pct.val > 10
  THEN "critical"
  ELSE IF TruthyMetric(self.packet_loss_pct) /\ self.packet_loss_pct.val > 5
  THEN "degraded"
  ELSE IF TruthyMetric(self.latency_ms) /\ self.latency_ms.val > 100
  THEN "warning"
  ELSE IF TruthyMetric(self.throughput_gbps) /\ self.throughput_gbps.val < 10
  THEN "warning"
  ELSE "healthy"

\* ---- Message / Conversation ---------------------------------------------
Message(role, content) == [role |-> role, content |-> content]

\* Python list slices
SliceFrom(s, k) == SubSeq(s, (IF k > Len(s) THEN Len(s) ELSE k) + 1, Len(s))
LastN(s, n) == IF n >= Len(s) THEN s ELSE SubSeq(s, Len(s) - n + 1, Len(s))

\* Conversation.get_history
get_history(msgs, max_messages) ==
  IF max_messages # 0 THEN LastN(msgs, max_messages) ELSE msgs

\* ---- diagnostics/anomaly.py ------------------------------------------------
\* a PerfSONARMeasurement: its timestamp (the position in the fetched window
\* stands for it) and its value
PerfSONARMeasurement(timestamp, value) == [timestamp |-> timestamp, value |-> value]
Measurements(values) ==
  [i \in 1..Len(values) |-> PerfSONARMeasurement(i, values[i])]

\* the sample values tried: lists with large swings, and long steady lists
SampleValues == {0, 6, 12}
SteadyValues == {7, 9}
PairLatencyValues == {0, 6}
SeqsOver(values, maxlen) == UNION {[1..n -> values] : n \in 0..maxlen}

\* DEFAULT_THRESHOLDS
throughput_drop_pct == 20
latency_spike_pct == 50

\* mutant: the threshold test is `>=`
FracGt_OrEqual(a, c) == a[1] >= c * a[2]

\* A float that is not a whole number is the fraction <<numerator, denominator>>
\* with a positive denominator, compared by cross-multiplication
FracGt(a, c) == a[1] > c * a[2]
FracGe(a, c) == a[1] >= c * a[2]

RECURSIVE Sum(_)
Sum(values) == IF values = <<>> THEN 0 ELSE values[1] + Sum(Tail(values))

\* statistics.mean(values)
mean(values) == <<Sum(values), Len(values)>>

\* statistics.stdev(values) ** 2, times Len(values)**2 * (Len(values) - 1):
\* the sum of the squares of n*x - sum
RECURSIVE SquaredDeviations(_, _, _)
SquaredDeviations(values, n, total) ==
  IF values = <<>> THEN 0
  ELSE (n * values[1] - total) * (n * values[1] - total)
       + SquaredDeviations(Tail(values), n, total)
stdev_squared(values) ==
  IF Len(values) > 1 THEN SquaredDeviations(values, Len(values), Sum(values)) ELSE 0

\* ((mean_val - m.value) / mean_val) * 100 if mean_val > 0 else 0
drop_pct(value, mean_val) ==
  IF mean_val[1] > 0
  THEN <<(mean_val[1] - value * mean_val[2]) * 100, mean_val[1]>>
  ELSE <<0, 1>>

\* ((m.value - mean_val) / mean_val) * 100 if mean_val > 0 else 0
spike_pct(value, mean_val) ==
  IF mean_val[1] > 0
  THEN <<(value * mean_val[2] - mean_val[1]) * 100, mean_val[1]>>
  ELSE <<0, 1>>

\* z_score = (m.value - mean_val) / stdev_val if stdev_val > 0 else 0, compared
\* with -2 and 2 through its square: with d = n*value - sum,
\* z_score**2 = d*d*(n-1) / stdev_squared
z_score_below_minus_2(value, values) ==
  LET n == Len(values)
      d == n * value - Sum(values)
  IN stdev_squared(values) > 0 /\ d < 0 /\ d * d * (n - 1) > 4 * stdev_squared(values)
z_score_above_2(value, values) ==
  LET n == Len(values)
      d == n * value - Sum(values)
  IN stdev_squared(values) > 0 /\ d > 0 /\ d * d * (n - 1) > 4 * stdev_squared(values)

\* AnomalyDetector._classify_severity
classify_severity(deviation_pct, thresholds) ==
  IF FracGe(deviation_pct, thresholds[3]) THEN "critical"
  ELSE IF FracGe(deviation_pct, thresholds[2]) THEN "high"
  ELSE IF FracGe(deviation_pct, thresholds[1]) THEN "medium"
  ELSE "low"

Anomaly(anomaly_type, severity, m) ==
  [anomaly_type |-> anomaly_type, severity |-> severity,
   detected_at |-> m.timestamp, current_value |-> m.value]

ValuesOf(ms) == [i \in 1..Len(ms) |-> ms[i].value]

\* mutant: every measurement is checked
Recent_All(ms) == ms

\* measurements[-10:]
Recent(ms) == LastN(ms, 10)

\* detect_throughput_anomalies from line 111 on
ThroughputAnomalies(ms) ==
  LET values == ValuesOf(ms)
      mean_val == mean(values)
      Flagged(m) == \/ FracGt(drop_pct(m.value, mean_val), throughput_drop_pct)
                    \/ z_score_below_minus_2(m.value, values)
      flagged == SelectSeq(Recent(ms), Flagged)
  IN [i \in 1..Len(flagged) |->
        Anomaly("throughput_drop",
                classify_severity(drop_pct(flagged[i].value, mean_val),
                                  <<20, 40, 60>>),
                flagged[i])]

\* mutant: the guard lets a list of four through
detect_throughput_anomalies_FourEnough(ms) ==
  IF Len(ms) < 4 THEN <<>> ELSE ThroughputAnomalies(ms)

\* AnomalyDetector.detect_throughput_anomalies
detect_throughput_anomalies(ms) ==
  IF Len(ms) < 5 THEN <<>> ELSE ThroughputAnomalies(ms)

\* detect_latency_anomalies from line 155 on
LatencyAnomalies(ms) ==
  LET values == ValuesOf(ms)
      mean_val == mean(values)
      Flagged(m) == \/ FracGt(spike_pct(m.value, mean_val), latency_spike_pct)
                    \/ z_score_above_2(m.value, values)
      flagged == SelectSeq(Recent(ms), Flagged)
  IN [i \in 1..Len(flagged) |->
        Anomaly("latency_spike",
                classify_severity(spike_pct(flagged[i].value, mean_val),
                                  <<50, 100, 200>>),
                flagged[i])]

\* AnomalyDetector.detect_latency_anomalies
detect_latency_anomalies(ms) ==
  IF Len(ms) < 5 THEN <<>> ELSE LatencyAnomalies(ms)

\* severity_order of detect_all
severity_order(severity) ==
  CASE severity = "critical" -> 0
    [] severity = "high" -> 1
    [] severity = "medium" -> 2
    [] severity = "low" -> 3

\* mutant: an element goes before the elements of equal key
InsertByKey_BeforeEqual(sorted, a) ==
  LET before == Cardinality({i \in 1..Len(sorted) :
                   severity_order(sorted[i].severity) < severity_order(a.severity)})
  IN SubSeq(sorted, 1, before) \o <<a>> \o SubSeq(sorted, before + 1, Len(sorted))

\* list.sort(key=...) is stable: an insertion sort that puts each element
\* after the elements whose key is not larger
InsertByKey(sorted, a) ==
  LET before == Cardinality({i \in 1..Len(sorted) :
                   severity_order(sorted[i].severity) <= severity_order(a.severity)})
  IN SubSeq(sorted, 1, before) \o <<a>> \o SubSeq(sorted, before + 1, Len(sorted))
RECURSIVE SortBySeverity(_)
SortBySeverity(list) ==
  IF list = <<>> THEN <<>>
  ELSE InsertByKey(SortBySeverity(SubSeq(list, 1, Len(list) - 1)), list[Len(list)])

\* AnomalyDetector.detect_all
detect_all(throughput_data, latency_samples) ==
  SortBySeverity(detect_throughput_anomalies(throughput_data)
                 \o detect_latency_anomalies(latency_samples))

\* ---- PromptEngine ---------------------------------------------------------
\* A text is a sequence of words.  str.lower() word by word.
LowerWord(w) ==
  CASE w = "Fix" -> "fix"
    [] w = "Anomaly" -> "anomaly"
    [] w = "DATA" -> "data"
    [] OTHER -> w
lower(text) == [i \in 1..Len(text) |-> LowerWord(text[i])]

\* the words of the model's vocabulary that hold a keyword as a proper substring
SubstringPairs == {<<"remediation", "remediat">>, <<"transaction", "action">>,
                   <<"metrics", "metric">>, <<"spikes", "spike">>}
\* Python's `kw in message_lower` (keywords hold no blank: a match lies in a word)
KwIn(kw, text) ==
  \E i \in 1..Len(text) : text[i] = kw \/ <<text[i], kw>> \in SubstringPairs

AnomalyKeywords == {"anomaly", "unusual", "strange", "weird", "spike"}
RemediationKeywords == {"fix", "remediat", "resolve", "repair", "action"}
TelemetryKeywords == {"telemetry", "metric", "measurement", "perfsonar", "data"}

\* mutant: the remediation keywords are tried before the anomaly keywords
classify_query_RemediationFirst(user_message) ==
  LET message_lower == lower(user_message) IN
  IF \E kw \in RemediationKeywords : KwIn(kw, message_lower) THEN "remediation"
  ELSE IF \E kw \in AnomalyKeywords : KwIn(kw, message_lower) THEN "anomaly_explanation"
  ELSE IF \E kw \in TelemetryKeywords : KwIn(kw, message_lower) THEN "telemetry_analysis"
  ELSE "general_diagnostics"

\* PromptEngine.classify_query
classify_query(user_message) ==
  LET message_lower == lower(user_message) IN
  IF \E kw \in AnomalyKeywords : KwIn(kw, message_lower) THEN "anomaly_explanation"
  ELSE IF \E kw \in RemediationKeywords : KwIn(kw, message_lower) THEN "remediation"
  ELSE IF \E kw \in TelemetryKeywords : KwIn(kw, message_lower) THEN "telemetry_analysis"
  ELSE "general_diagnostics"

TemplateNames == {"general_diagnostics", "telemetry_analysis",
                  "anomaly_explanation", "remediation"}

\* PromptEngine.get_system_prompt: the system text of a template, one word
\* standing for each of the four fixed prompt texts
get_system_prompt(template_name) ==
  IF template_name \notin TemplateNames THEN <<"NETWORK_DIAGNOSTICS_SYSTEM_PROMPT">>
  ELSE CASE template_name = "general_diagnostics" -> <<"NETWORK_DIAGNOSTICS_SYSTEM_PROMPT">>
         [] template_name = "telemetry_analysis" -> <<"TELEMETRY_ANALYSIS_SYSTEM_PROMPT">>
         [] template_name = "anomaly_explanation" -> <<"ANOMALY_EXPLANATION_SYSTEM_PROMPT">>
         [] template_name = "remediation" -> <<"REMEDIATION_SYSTEM_PROMPT">>

TelemetryHeader == <<"---", "**Current Network Telemetry Context**:">>

\* mutant: the telemetry block is appended without the `if telemetry_context` test
build_messages_AlwaysHeader(user_message, conversation_history, template_name, telemetry_context) ==
  <<Message("system", get_system_prompt(template_name) \o TelemetryHeader
                        \o telemetry_context.val)>>
  \o conversation_history \o <<Message("user", user_message)>>

\* PromptEngine.build_messages
build_messages(user_message, conversation_history, template_name, telemetry_context) ==
  LET system_prompt == get_system_prompt(template_name) \o
        (IF Truthy(telemetry_context) THEN TelemetryHeader \o telemetry_context.val
         ELSE <<>>)
  IN <<Message("system", system_prompt)>> \o conversation_history \o
     <<Message("user", user_message)>>

\* ---- TelemetryProcessor ---------------------------------------------------
\* format_telemetry_context: the path block when both endpoints are given,
\* the network overview otherwise
format_telemetry_context(source, destination) ==
  IF source # NoneId /\ destination # NoneId
  THEN <<"**Path**", "**Status**", "**Throughput**", "**Latency**",
         "**Packet Loss**", "**Jitter**">>
  ELSE <<"**Network Overview**", "Healthy", "Warning", "Degraded", "Critical">>

\* ---- config.LLMModel ------------------------------------------------------
\* mutant: the enumeration accepts one more identifier
LLMModel_Open == {"qwen3-vl", "glm-4.7", "gpt-oss", "gpt-5"}

LLMModel == {"qwen3-vl", "glm-4.7", "gpt-oss"}

\* ---- Conversation / ContextManager helpers -------------------------------
\* mutant: the message is inserted at the front
add_message_Prepend(msgs, role, content) == <<Message(role, content)>> \o msgs

\* Conversation.add_message
add_message(msgs, role, content) == Append(msgs, Message(role, content))

\* mutant: the trim starts one message late (`>=` for `>` on a bound one too large)
TrimHistory_KeepOneMore(msgs, max_history) ==
  IF Len(msgs) > max_history + 1
  THEN SubSeq(msgs, Len(msgs) - max_history, Len(msgs))
  ELSE msgs

\* mutant: the trim keeps the head of the list, messages[:max]
TrimHistory_DropNewest(msgs, max_history) ==
  IF Len(msgs) > max_history THEN SubSeq(msgs, 1, max_history) ELSE msgs

\* mutant: the trim removes one message more than the excess
TrimHistory_DropOneExtra(msgs, max_history) ==
  IF Len(msgs) > max_history
  THEN SubSeq(msgs, Len(msgs) - max_history + 2, Len(msgs))
  ELSE msgs

\* ContextManager.record_assistant_response, the trim of lines 175-177
TrimHistory(msgs, max_history) ==
  IF Len(msgs) > max_history
  THEN LET excess == Len(msgs) - max_history IN SliceFrom(msgs, excess)
  ELSE msgs

\* ContextManager.get_conversation: 0 stands for None
get_conversation(store, conversation_id) ==
  IF conversation_id \in DOMAIN store THEN store[conversation_id] ELSE 0

\* self._conversations[key] = conv
StorePut(store, key, o) ==
  [k \in (DOMAIN store) \cup {key} |-> IF k = key THEN o ELSE store[k]]

\* mutant: the record is reported deleted but stays in the dict
StoreDel_Keep(store, conversation_id) == store

\* del self._conversations[conversation_id]
StoreDel(store, conversation_id) ==
  [k \in (DOMAIN store) \ {conversation_id} |-> store[k]]

\* the key under which create_conversation files the n-th Conversation
CreateKey(n) == Uuid(n)

\* the ids a caller can name: invented ones and every uuid issued so far
KnownIds == CallerIds \cup {Uuid(n) : n \in 1..nconv}

\* the entry of the history variable `appended` for one add_message
Entry(role, content, turn) ==
  LET m == add_message(<<>>, role, content)[1]
  IN [role |-> m.role, content |-> m.content, turn |-> turn]
Plain(entries) == [i \in 1..Len(entries) |-> Message(entries[i].role, entries[i].content)]

IdleTask == [pc |-> "idle", conversation_id |-> NoneId, turn |-> 0,
             full_response |-> <<>>]

\* a completed call as its caller saw it: the ContextManager method, its
\* arguments, what it returned, and the HTTP status when it ended a request
NoCall == [op |-> "none", conversation_id |-> NoneId, text |-> <<>>,
           found |-> FALSE, obj |-> 0, messages |-> <<>>, failed |-> FALSE,
           status |-> 0, model |-> NoneId]

Call(op, id, text, found, obj, messages, failed, status) ==
  [op |-> op, conversation_id |-> id, text |-> text, found |-> found, obj |-> obj,
   messages |-> messages, failed |-> failed, status |-> status, model |-> NoneId]

\* no call of the telemetry aggregator is running
NoAgg == [op |-> "none", source |-> NoneId, destination |-> NoneId, pc |-> "idle"]

\* no diagnostics function has been given anything
HealthIdle ==
  /\ path = NoPath
  /\ health = "none"

DetectIdle ==
  /\ measurements = <<>>
  /\ latency_data = <<>>
  /\ anomalies = <<>>
  /\ detected = "none"

TraceIdle ==
  /\ hops = <<>>
  /\ new_hops = <<>>
  /\ traced = "none"
  /\ trace_out = None

ClassifyIdle ==
  /\ query = <<>>
  /\ template = "none"

AggIdle ==
  /\ agg = NoAgg
  /\ fetches = <<>>
  /\ paths = <<>>
  /\ bundle = None

DiagIdle ==
  /\ HealthIdle
  /\ DetectIdle
  /\ TraceIdle
  /\ ClassifyIdle
  /\ AggIdle

\* the store as ContextManager.__init__ leaves it, no request running
StoreEmpty ==
  /\ conversations = [k \in {} |-> 0]
  /\ nconv = 0
  /\ conv_id = <<>>
  /\ conv_messages = <<>>
  /\ appended = <<>>
  /\ task = [r \in Tasks |-> IdleTask]
  /\ nturns = 0
  /\ ndirect = 0
  /\ last = NoCall

Init ==
  /\ context_window_size \in 0..MaxWindow
  /\ max_conversation_history \in 0..MaxHistory
  /\ StoreEmpty
  /\ DiagIdle

\* ---- the store's operations, called directly ------------------------------
\* ContextManager.create_conversation
create_conversation ==
  /\ nconv < MaxConvs
  /\ nturns + ndirect < MaxCalls
  /\ ndirect' = ndirect + 1
  /\ LET o == nconv + 1 IN
     /\ nconv' = o
     /\ conv_id' = Append(conv_id, Uuid(o))
     /\ conv_messages' = Append(conv_messages, <<>>)
     /\ appended' = Append(appended, <<>>)
     /\ conversations' = StorePut(conversations, CreateKey(o), o)
     /\ last' = Call("create_conversation", Uuid(o), <<>>, TRUE, o, <<>>, FALSE, 0)
  /\ UNCHANGED <<diag, context_window_size, max_conversation_history, task, nturns>>

\* ContextManager.get_conversation
GetConversation(conversation_id) ==
  /\ nturns + ndirect < MaxCalls
  /\ ndirect' = ndirect + 1
  /\ LET conv == get_conversation(conversations, conversation_id) IN
     last' = Call("get_conversation", conversation_id, <<>>, conv # 0, conv,
                  <<>>, FALSE, 0)
  /\ UNCHANGED <<diag, context_window_size, max_conversation_history, conversations, nconv,
                 conv_id, conv_messages, appended, task, nturns>>

\* ContextManager.delete_conversation
delete_conversation(conversation_id) ==
  /\ nturns + ndirect < MaxCalls
  /\ ndirect' = ndirect + 1
  /\ IF conversation_id \in DOMAIN conversations
     THEN /\ conversations' = StoreDel(conversations, conversation_id)
          /\ last' = Call("delete_conversation", conversation_id, <<>>, TRUE,
                          conversations[conversation_id], <<>>, FALSE, 0)
     ELSE /\ conversations' = conversations
          /\ last' = Call("delete_conversation", conversation_id, <<>>, FALSE, 0,
                          <<>>, FALSE, 0)
  /\ UNCHANGED <<diag, context_window_size, max_conversation_history, nconv, conv_id,
                 conv_messages, appended, task, nturns>>

\* ContextManager.record_assistant_response: the new messages and the new
\* history variable of the heap, for the call (conversation_id, content) of `turn`
\* mutant: the trim is applied to every conversation of the store
RecordMessages_TrimAll(conversation_id, content) ==
  LET conv == get_conversation(conversations, conversation_id) IN
  IF conv # 0
  THEN [o \in 1..nconv |->
          IF o = conv
          THEN TrimHistory(add_message(conv_messages[o], "assistant", content),
                           max_conversation_history)
          ELSE TrimHistory(conv_messages[o], max_conversation_history)]
  ELSE conv_messages

RecordMessages(conversation_id, content) ==
  LET conv == get_conversation(conversations, conversation_id) IN
  IF conv # 0
  THEN [conv_messages EXCEPT ![conv] =
          TrimHistory(add_message(@, "assistant", content), max_conversation_history)]
  ELSE conv_messages

RecordAppended(conversation_id, content, turn) ==
  LET conv == get_conversation(conversations, conversation_id) IN
  IF conv # 0
  THEN [appended EXCEPT ![conv] = Append(@, Entry("assistant", content, turn))]
  ELSE appended

RecordCall(conversation_id, content, status) ==
  LET conv == get_conversation(conversations, conversation_id) IN
  Call("record_assistant_response", conversation_id, content, conv # 0, conv,
       <<>>, FALSE, status)

record_assistant_response(conversation_id, content) ==
  /\ nturns + ndirect < MaxCalls
  /\ ndirect' = ndirect + 1
  /\ conv_messages' = RecordMessages(conversation_id, content)
  /\ appended' = RecordAppended(conversation_id, content, 0)
  /\ last' = RecordCall(conversation_id, content, 0)
  /\ UNCHANGED <<diag, context_window_size, max_conversation_history, conversations, nconv,
                 conv_id, task, nturns>>

\* ---- api/routes/chat.py, with build_llm_messages inlined -------------------
\* what `await self.telemetry.format_telemetry_context(...)` leaves in
\* telemetry_context: the text, or None when the fetch raised
TelemetryContext(failed, source, destination) ==
  IF failed THEN None ELSE Some(format_telemetry_context(source, destination))

\* send_message lines 57-87 and stream_message lines 110-130, which are the
\* same code up to the transport call, with build_llm_messages lines 137-166;
\* `awaiting` is where the coroutine waits next: "llm" for chat_completion,
\* "stream" for the first token of stream_completion.  Neither
\* PerfSONARClient mode suspends in the telemetry fetch (the mock generators
\* are synchronous, the production path raises or returns at once), so the
\* coroutine runs to the transport's HTTP request in one step: the
\* conversation is resolved or created, the query classified, the telemetry
\* fetched (or its failure swallowed), the window taken, the list built, the
\* user turn recorded and the model validated.
ChatTurn(r, request_conversation_id, message, source, destination, model, failed, awaiting) ==
  /\ task[r].pc = "idle"
  /\ \A r2 \in Tasks : r2 < r => task[r2].pc # "idle"
  /\ nturns + ndirect < MaxCalls
  /\ LET fresh == nconv + 1
         creates == request_conversation_id = NoneId
                    \/ get_conversation(conversations, request_conversation_id) = 0
         conversation_id == IF request_conversation_id = NoneId THEN Uuid(fresh)
                            ELSE request_conversation_id
         conv == IF creates THEN fresh ELSE conversations[request_conversation_id]
         before == IF creates THEN <<>> ELSE conv_messages[conv]
         template_name == classify_query(message)
         telemetry_context == TelemetryContext(failed, source, destination)
         history == get_history(before, context_window_size)
         messages == build_messages(message, history, template_name, telemetry_context)
         invalid == model # NoneId /\ model \notin LLMModel
     IN
     /\ creates => nconv < MaxConvs
     /\ IF creates
        THEN /\ nconv' = fresh
             /\ conversations' = StorePut(conversations, CreateKey(fresh), fresh)
             /\ conv_id' = Append(conv_id, conversation_id)
             /\ conv_messages' = Append(conv_messages, add_message(<<>>, "user", message))
             /\ appended' = Append(appended, <<Entry("user", message, nturns + 1)>>)
        ELSE /\ UNCHANGED <<nconv, conversations, conv_id>>
             /\ conv_messages' = [conv_messages EXCEPT ![conv] =
                                    add_message(@, "user", message)]
             /\ appended' = [appended EXCEPT ![conv] =
                               Append(@, Entry("user", message, nturns + 1))]
     /\ last' = [Call("build_llm_messages", conversation_id, message,
                      get_conversation(conversations, request_conversation_id) # 0
                        \/ request_conversation_id = NoneId,
                      conv, messages, failed, IF invalid THEN 400 ELSE 0)
                   EXCEPT !.model = model]
     /\ nturns' = nturns + 1
     /\ task' = [task EXCEPT ![r] =
          IF invalid THEN IdleTask
          ELSE [pc |-> awaiting, conversation_id |-> conversation_id,
                turn |-> nturns + 1, full_response |-> <<>>]]
  /\ UNCHANGED <<diag, context_window_size, max_conversation_history, ndirect>>

\* POST /chat
send_message(r, request_conversation_id, message, source, destination, model, failed) ==
  ChatTurn(r, request_conversation_id, message, source, destination, model, failed, "llm")

\* POST /chat/stream, up to the StreamingResponse
stream_message(r, request_conversation_id, message, source, destination, model, failed) ==
  ChatTurn(r, request_conversation_id, message, source, destination, model, failed, "stream")

\* send_message lines 87-104: the transport returns, the reply is recorded
chat_completion_return(r, content) ==
  /\ task[r].pc = "llm"
  /\ LET t == task[r] IN
     /\ conv_messages' = RecordMessages(t.conversation_id, content)
     /\ appended' = RecordAppended(t.conversation_id, content, t.turn)
     /\ last' = RecordCall(t.conversation_id, content, 200)
     /\ task' = [task EXCEPT ![r] =
          IdleTask]
  /\ UNCHANGED <<diag, context_window_size, max_conversation_history, conversations, nconv,
                 conv_id, nturns, ndirect>>

\* mutant: the failure is swallowed and an empty reply is recorded and returned
chat_completion_raise_EmptyReply(r) ==
  /\ task[r].pc = "llm"
  /\ conv_messages' = RecordMessages(task[r].conversation_id, <<>>)
  /\ appended' = RecordAppended(task[r].conversation_id, <<>>, task[r].turn)
  /\ last' = [RecordCall(task[r].conversation_id, <<>>, 200) EXCEPT !.failed = TRUE]
  /\ task' = [task EXCEPT ![r] = IdleTask]
  /\ UNCHANGED <<diag, context_window_size, max_conversation_history, conversations, nconv,
                 conv_id, nturns, ndirect>>

\* send_message lines 88-90: the transport raises, HTTP 502
chat_completion_raise(r) ==
  /\ task[r].pc = "llm"
  /\ task' = [task EXCEPT ![r] = IdleTask]
  /\ last' = Call("chat_completion", task[r].conversation_id, <<>>, FALSE, 0,
                  <<>>, TRUE, 502)
  /\ UNCHANGED <<diag, context_window_size, max_conversation_history, conversations, nconv,
                 conv_id, conv_messages, appended, nturns, ndirect>>

\* ---- stream_message.generate -----------------------------------------------
\* full_response += token
Accumulate(full_response, token) == full_response \o token

\* lines 135-137: stream_completion yields its next content token, which is
\* added to full_response and sent on as an event
stream_token(r) ==
  /\ task[r].pc = "stream"
  /\ Len(task[r].full_response) < Len(StreamTokens)
  /\ LET token == StreamTokens[Len(task[r].full_response) + 1] IN
     task' = [task EXCEPT ![r].full_response = Accumulate(@, token)]
  /\ UNCHANGED <<diag, context_window_size, max_conversation_history, conversations, nconv,
                 conv_id, conv_messages, appended, nturns, ndirect, last>>

\* line 138: the token producer ended normally; the generator is suspended at
\* `yield "data: [DONE]"` until the response has sent that event
stream_end(r) ==
  /\ task[r].pc = "stream"
  /\ task' = [task EXCEPT ![r].pc = "done"]
  /\ UNCHANGED <<diag, context_window_size, max_conversation_history, conversations, nconv,
                 conv_id, conv_messages, appended, nturns, ndirect, last>>

\* line 139: resumed after the [DONE] event, the generator records the reply
stream_commit(r) ==
  /\ task[r].pc = "done"
  /\ LET t == task[r] IN
     /\ conv_messages' = RecordMessages(t.conversation_id, t.full_response)
     /\ appended' = RecordAppended(t.conversation_id, t.full_response, t.turn)
     /\ last' = RecordCall(t.conversation_id, t.full_response, 200)
     /\ task' = [task EXCEPT ![r] = IdleTask]
  /\ UNCHANGED <<diag, context_window_size, max_conversation_history, conversations, nconv,
                 conv_id, nturns, ndirect>>

\* mutant: the except branch records what was received so far
stream_raise_RecordsPartial(r) ==
  /\ task[r].pc = "stream"
  /\ LET t == task[r] IN
     /\ conv_messages' = RecordMessages(t.conversation_id, t.full_response)
     /\ appended' = RecordAppended(t.conversation_id, t.full_response, t.turn)
     /\ last' = RecordCall(t.conversation_id, t.full_response, 200)
     /\ task' = [task EXCEPT ![r] = IdleTask]
  /\ UNCHANGED <<diag, context_window_size, max_conversation_history, conversations, nconv,
                 conv_id, nturns, ndirect>>

\* lines 140-141: stream_completion raises (HTTP error status, connection
\* lost, malformed chunk); an [ERROR] event is sent and nothing is recorded
stream_raise(r) ==
  /\ task[r].pc = "stream"
  /\ task' = [task EXCEPT ![r] = IdleTask]
  /\ last' = Call("stream_completion", task[r].conversation_id,
                  task[r].full_response, FALSE, 0, <<>>, TRUE, 200)
  /\ UNCHANGED <<diag, context_window_size, max_conversation_history, conversations, nconv,
                 conv_id, conv_messages, appended, nturns, ndirect>>

\* the caller goes away while the generator waits for a token or is suspended
\* at a yield: the generator is ended there (CancelledError and GeneratorExit
\* are not Exception, so line 140 does not catch them) and line 139 is never
\* reached
stream_cancel(r) ==
  /\ task[r].pc \in {"stream", "done"}
  /\ task' = [task EXCEPT ![r] = IdleTask]
  /\ last' = Call("cancel", task[r].conversation_id, task[r].full_response,
                  FALSE, 0, <<>>, FALSE, 200)
  /\ UNCHANGED <<diag, context_window_size, max_conversation_history, conversations, nconv,
                 conv_id, conv_messages, appended, nturns, ndirect>>

Next ==
  \/ create_conversation
  \/ \E id \in KnownIds : GetConversation(id)
  \/ \E id \in KnownIds : delete_conversation(id)
  \/ \E id \in KnownIds, c \in DirectContents : record_assistant_response(id, c)
  \/ \E r \in Tasks, id \in KnownIds \cup {NoneId}, q \in Requests,
        failed \in BOOLEAN :
       send_message(r, id, q.message, q.source, q.destination, q.model, failed)
  \/ \E r \in Tasks, c \in AssistantContents : chat_completion_return(r, c)
  \/ \E r \in Tasks : chat_completion_raise(r)

Spec == Init /\ [][Next]_vars

\* ---- NetworkPath.health_status on every path --------------------------------
\* the settings' defaults; the store is not used
SettingsDefault ==
  /\ context_window_size = 10
  /\ max_conversation_history = 50

HealthInit ==
  /\ SettingsDefault
  /\ StoreEmpty
  /\ path \in {NetworkPath(t, l, p) : t \in Optional(ThroughputValues),
                                       l \in Optional(LatencyValues),
                                       p \in Optional(PacketLossValues)}
  /\ health = "none"
  /\ DetectIdle
  /\ TraceIdle
  /\ ClassifyIdle
  /\ AggIdle

\* the property is read
ReadHealthStatus ==
  /\ health = "none"
  /\ health' = health_status(path)
  /\ UNCHANGED <<chat, path, detectvars, tracevars, classifyvars, aggvars>>

HealthNext == ReadHealthStatus

HealthSpec == HealthInit /\ [][HealthNext]_vars

\* ---- the detectors on every sample list -------------------------------------
DetectInit ==
  /\ SettingsDefault
  /\ StoreEmpty
  /\ HealthIdle
  /\ measurements \in {Measurements(values) :
        values \in SeqsOver(SampleValues, MaxSamples)
                   \cup SeqsOver(SteadyValues, MaxSteady)}
  /\ latency_data = <<>>
  /\ anomalies = <<>>
  /\ detected = "none"
  /\ TraceIdle
  /\ ClassifyIdle
  /\ AggIdle

Detected(by, result) ==
  /\ detected = "none"
  /\ detected' = by
  /\ anomalies' = result
  /\ UNCHANGED <<chat, healthvars, measurements, latency_data, tracevars,
                 classifyvars, aggvars>>

DetectThroughput == Detected("throughput", detect_throughput_anomalies(measurements))
DetectLatency == Detected("latency", detect_latency_anomalies(measurements))

DetectNext == DetectThroughput \/ DetectLatency

DetectSpec == DetectInit /\ [][DetectNext]_vars

\* ---- detect_all on every pair of sample lists -------------------------------
DetectAllInit ==
  /\ SettingsDefault
  /\ StoreEmpty
  /\ HealthIdle
  /\ measurements \in {Measurements(values) : values \in SeqsOver(SampleValues, MaxPair)}
  /\ latency_data \in {Measurements(values) :
                          values \in SeqsOver(PairLatencyValues, MaxPair)}
  /\ anomalies = <<>>
  /\ detected = "none"
  /\ TraceIdle
  /\ ClassifyIdle
  /\ AggIdle

DetectAll == Detected("all", detect_all(measurements, latency_data))

DetectAllNext == DetectAll

DetectAllSpec == DetectAllInit /\ [][DetectAllNext]_vars

\* ---- diagnostics/traceroute.py ------------------------------------------------
\* RTTs are whole milliseconds; a missing rtt_ms is NoMetric
TracerouteHop(hop_number, ip_address, rtt_ms, is_responding) ==
  [hop_number |-> hop_number, ip_address |-> ip_address, rtt_ms |-> rtt_ms,
   is_responding |-> is_responding]

\* TracerouteResult.total_rtt_ms: the last hop's rtt_ms when it is truthy
total_rtt_ms(result_hops) ==
  IF result_hops # <<>> /\ TruthyMetric(result_hops[Len(result_hops)].rtt_ms)
    THEN result_hops[Len(result_hops)].rtt_ms
    ELSE NoMetric

\* the test the loop of problematic_hops makes on the hop at position i
\* (positions from 1; Python's i > 0 is i > 1 here)
IsProblem(result_hops, i) ==
  IF ~result_hops[i].is_responding
    THEN TRUE
    ELSE /\ i > 1
         /\ TruthyMetric(result_hops[i].rtt_ms)
         /\ TruthyMetric(result_hops[i - 1].rtt_ms)
         /\ result_hops[i].rtt_ms.val - result_hops[i - 1].rtt_ms.val > 20

RECURSIVE ProblemsUpTo(_, _)
ProblemsUpTo(result_hops, n) ==
  IF n = 0 THEN <<>>
  ELSE IF IsProblem(result_hops, n)
    THEN Append(ProblemsUpTo(result_hops, n - 1), result_hops[n])
    ELSE ProblemsUpTo(result_hops, n - 1)

\* TracerouteResult.problematic_hops
problematic_hops(result_hops) == ProblemsUpTo(result_hops, Len(result_hops))

\* `x or 0`
OrZero(m) == IF TruthyMetric(m) THEN m.val ELSE 0

\* {h.ip_address for h in hops}
IpsOf(result_hops) == {result_hops[i].ip_address : i \in 1..Len(result_hops)}

analyze_path_change_AddedIsNew(old, new) ==
  LET old_ips == IpsOf(old)
      new_ips == IpsOf(new)
      added == new_ips
      removed == old_ips \ new_ips
  IN [path_changed |-> added # {} \/ removed # {},
      hops_added |-> added,
      hops_removed |-> removed,
      old_hop_count |-> Len(old),
      new_hop_count |-> Len(new),
      rtt_change_ms |-> OrZero(total_rtt_ms(new)) - OrZero(total_rtt_ms(old))]

\* TracerouteAnalyzer.analyze_path_change; list(added) and list(removed) are
\* kept as the sets they are built from, their order is the set's
analyze_path_change(old, new) ==
  LET old_ips == IpsOf(old)
      new_ips == IpsOf(new)
      added == new_ips \ old_ips
      removed == old_ips \ new_ips
  IN [path_changed |-> added # {} \/ removed # {},
      hops_added |-> added,
      hops_removed |-> removed,
      old_hop_count |-> Len(old),
      new_hop_count |-> Len(new),
      rtt_change_ms |-> OrZero(total_rtt_ms(new)) - OrZero(total_rtt_ms(old))]

\* the addresses of the hops
Addresses == {"10.0.0.1", "10.0.0.2", "10.0.0.3"}
Address(i) == "10.0.0." \o ToString(i)

\* what one hop can report: no answer, an answer without a time, or an answer
\* after a time; 10 to 30 is a rise of exactly 20 ms and 10 to 31 one of 21
HopRtts == {0, 10, 30, 31}
HopReports ==
  {[rtt_ms |-> NoMetric, is_responding |-> FALSE]}
    \cup {[rtt_ms |-> m, is_responding |-> TRUE] : m \in Optional(HopRtts)}

\* the hop lists of up to maxlen hops, numbered from 1 as the tracer numbers them
HopLists(maxlen) ==
  UNION {{[i \in 1..n |-> TracerouteHop(i, Address(i), f[i].rtt_ms, f[i].is_responding)] :
            f \in [1..n -> HopReports]} : n \in 0..maxlen}

\* the routes of up to maxlen hops through the addresses, every hop answering
Routes(maxlen) ==
  UNION {{[i \in 1..n |-> TracerouteHop(i, f[i], Metric(10 * i), TRUE)] :
            f \in [1..n -> Addresses]} : n \in 0..maxlen}

\* ---- the properties of a TracerouteResult on every hop list ------------------
TraceInit ==
  /\ SettingsDefault
  /\ StoreEmpty
  /\ HealthIdle
  /\ DetectIdle
  /\ ClassifyIdle
  /\ AggIdle
  /\ hops \in HopLists(MaxHops)
  /\ new_hops = <<>>
  /\ traced = "none"
  /\ trace_out = None

Traced(by, result) ==
  /\ traced = "none"
  /\ traced' = by
  /\ trace_out' = result
  /\ UNCHANGED <<chat, healthvars, detectvars, classifyvars, aggvars, hops, new_hops>>

ReadProblematicHops == Traced("problematic_hops", problematic_hops(hops))
ReadTotalRtt == Traced("total_rtt_ms", total_rtt_ms(hops))

TraceNext == ReadProblematicHops \/ ReadTotalRtt

TraceSpec == TraceInit /\ [][TraceNext]_vars

\* ---- analyze_path_change on every pair of routes ------------------------------
PathChangeInit ==
  /\ SettingsDefault
  /\ StoreEmpty
  /\ HealthIdle
  /\ DetectIdle
  /\ ClassifyIdle
  /\ AggIdle
  /\ hops \in Routes(MaxRoute)
  /\ new_hops \in Routes(MaxRoute)
  /\ traced = "none"
  /\ trace_out = None

AnalyzePathChange == Traced("analyze_path_change", analyze_path_change(hops, new_hops))

PathChangeNext == AnalyzePathChange

PathChangeSpec == PathChangeInit /\ [][PathChangeNext]_vars

\* ---- classify_query on every short message -----------------------------------
\* the words a message is made of: keywords in both cases, words that hold a
\* keyword inside, and a word that holds none
QueryWords == {"hello", "Fix", "fix", "Anomaly", "anomaly", "DATA", "spikes",
               "transaction", "metrics", "resolve"}

ClassifyInit ==
  /\ SettingsDefault
  /\ StoreEmpty
  /\ HealthIdle
  /\ DetectIdle
  /\ TraceIdle
  /\ AggIdle
  /\ query \in SeqsOver(QueryWords, MaxWords)
  /\ template = "none"

ClassifyQuery ==
  /\ template = "none"
  /\ template' = classify_query(query)
  /\ UNCHANGED <<chat, healthvars, detectvars, tracevars, aggvars, query>>

ClassifyNext == ClassifyQuery

ClassifySpec == ClassifyInit /\ [][ClassifyNext]_vars

\* ---- diagnostics/telemetry.py: the TelemetryProcessor -------------------------
\* `if source and destination`: None and the empty string are both falsy
EndpointGiven(e) == e # NoneId /\ e # ""

\* a NetworkPath with its jitter_ms, as get_path_health returns it
PathHealth(throughput_gbps, latency_ms, packet_loss_pct, jitter_ms) ==
  [throughput_gbps |-> throughput_gbps, latency_ms |-> latency_ms,
   packet_loss_pct |-> packet_loss_pct, jitter_ms |-> jitter_ms]

\* NetworkPath.to_dict
to_dict(self) ==
  [throughput_gbps |-> self.throughput_gbps, latency_ms |-> self.latency_ms,
   packet_loss_pct |-> self.packet_loss_pct, jitter_ms |-> self.jitter_ms,
   health_status |-> health_status(self)]

\* the paths the Measurement Source reports: a healthy one, and a critical one
\* with two metrics missing
PathHealths == {PathHealth(Metric(80), Metric(20), Metric(0), Metric(2)),
                PathHealth(Metric(9), NoMetric, Metric(11), NoMetric)}
NetworkPathLists == SeqsOver(PathHealths, 2)

\* _mock_throughput and _mock_latency: sample i (from 1) was taken i - 1
\* intervals before the query, so the list runs from the newest sample to the
\* oldest; timestamps are minutes relative to the query.  The number of
\* samples, hours * 4 and hours * 60 in the code, is the length of `values`.
mock_throughput(values) ==
  [i \in 1..Len(values) |-> PerfSONARMeasurement(0 - 15 * (i - 1), values[i])]
mock_latency(values) ==
  [i \in 1..Len(values) |-> PerfSONARMeasurement(0 - (i - 1), values[i])]

\* the sample values of the windows the Measurement Source returns
\* steady windows of up to maxlen samples with at most one dip, at any position
DipWindows(maxlen) ==
  UNION {{[i \in 1..n |-> IF i = k THEN 7 ELSE 9] : k \in 0..n} : n \in 0..maxlen}
ThroughputWindows == SeqsOver(SampleValues, MaxPair) \cup DipWindows(MaxSteady)
LatencyWindows == {<<>>, <<0, 0, 0, 0, 6>>, <<0, 0, 6, 6, 6>>}

\* the hop lists trace returns
TraceResults == {<<>>, <<TracerouteHop(1, Address(1), Metric(10), TRUE),
                         TracerouteHop(2, Address(2), NoMetric, FALSE)>>}

\* str.upper() of the status and severity names
upper(word) ==
  CASE word = "healthy" -> "HEALTHY"
    [] word = "warning" -> "WARNING"
    [] word = "degraded" -> "DEGRADED"
    [] word = "critical" -> "CRITICAL"
    [] word = "high" -> "HIGH"
    [] word = "medium" -> "MEDIUM"
    [] word = "low" -> "LOW"
    [] OTHER -> word

\* an optional number inside an f-string: str(None) is "None"
Show(m) == IF m.given THEN ToString(m.val) ELSE "None"

\* Anomaly.format_for_llm: the fields of the entry that tell anomalies apart
format_for_llm(self) ==
  <<self.anomaly_type, upper(self.severity), ToString(self.current_value),
    ToString(self.detected_at)>>

\* list[:n]
FirstN(list, n) == SubSeq(list, 1, IF Len(list) < n THEN Len(list) ELSE n)

\* the six lines format_telemetry_context writes for a path
PathLines(source, destination, p) ==
  <<<<"**Path**", source, destination>>,
    <<"**Status**", upper(health_status(p))>>,
    <<"**Throughput**", Show(p.throughput_gbps), "Gbps">>,
    <<"**Latency**", Show(p.latency_ms), "ms">>,
    <<"**Packet Loss**", Show(p.packet_loss_pct), "%">>,
    <<"**Jitter**", Show(p.jitter_ms), "ms">>>>

\* mutant: every anomaly gets an entry
AnomalyLines_All(found) ==
  IF found = <<>> THEN <<>>
  ELSE <<<<"**Active Anomalies**", ToString(Len(found))>>>>
       \o [i \in 1..Len(found) |-> <<"-">> \o format_for_llm(found[i])]

\* the lines format_telemetry_context writes `if anomalies`
AnomalyLines(found) ==
  IF found = <<>> THEN <<>>
  ELSE <<<<"**Active Anomalies**", ToString(Len(found))>>>>
       \o [i \in 1..Len(FirstN(found, 3)) |-> <<"-">> \o format_for_llm(FirstN(found, 3)[i])]

\* sum(1 for p in paths if p.health_status == status)
CountStatus(all_paths, status) ==
  Cardinality({i \in 1..Len(all_paths) : health_status(all_paths[i]) = status})

\* TelemetryProcessor.get_network_summary
get_network_summary(all_paths) ==
  [total_paths |-> Len(all_paths),
   healthy |-> CountStatus(all_paths, "healthy"),
   degraded |-> CountStatus(all_paths, "degraded"),
   warning |-> CountStatus(all_paths, "warning"),
   critical |-> CountStatus(all_paths, "critical")]

\* the lines format_telemetry_context writes without a path
SummaryLines(summary) ==
  <<<<"**Network Overview**", ToString(summary.total_paths)>>,
    <<"- Healthy:", ToString(summary.healthy)>>,
    <<"- Warning:", ToString(summary.warning)>>,
    <<"- Degraded:", ToString(summary.degraded)>>,
    <<"- Critical:", ToString(summary.critical)>>>>

\* the dict get_path_diagnostics returns
Diagnostics(path_health, traceroute_result, found, throughput_data, latency_samples) ==
  [path |-> to_dict(path_health),
   traceroute |-> traceroute_result,
   anomalies |-> found,
   measurement_count |-> [throughput |-> Len(throughput_data),
                          latency |-> Len(latency_samples)]]

\* the time_range_hours each function asks for
Hours(op) == IF op = "get_path_diagnostics" THEN 24 ELSE 6

\* one awaited sub-fetch in the history variable
Fetch(name, hours, raised) == [fetch |-> name, hours |-> hours, raised |-> raised]

\* the sub-fetches that can raise: get_path_health and trace raise
\* NotImplementedError outside mock mode, _fetch_measurements raises what its
\* HTTP request raises
Raising == {"get_path_health", "trace", "get_throughput", "get_latency"}

\* ---- a call of the TelemetryProcessor, sub-fetch by sub-fetch ------------------
AggInit ==
  /\ SettingsDefault
  /\ StoreEmpty
  /\ DiagIdle

\* TelemetryProcessor.get_path_diagnostics is called
GetPathDiagnostics(source, destination) ==
  /\ agg.pc = "idle"
  /\ agg' = [op |-> "get_path_diagnostics", source |-> source,
             destination |-> destination, pc |-> "get_path_health"]
  /\ UNCHANGED <<chat, healthvars, detectvars, tracevars, classifyvars,
                 fetches, paths, bundle>>

\* TelemetryProcessor.format_telemetry_context is called
FormatTelemetryContext(source, destination) ==
  /\ agg.pc = "idle"
  /\ agg' = [op |-> "format_telemetry_context", source |-> source,
             destination |-> destination,
             pc |-> IF EndpointGiven(source) /\ EndpointGiven(destination)
                      THEN "get_path_health" ELSE "get_network_paths"]
  /\ UNCHANGED <<chat, healthvars, detectvars, tracevars, classifyvars,
                 fetches, paths, bundle>>

\* await self.perfsonar.get_path_health(source, destination) returns
get_path_health_returns ==
  /\ agg.pc = "get_path_health"
  /\ \E p \in PathHealths : path' = p
  /\ fetches' = Append(fetches, Fetch("get_path_health", 0, FALSE))
  /\ agg' = [agg EXCEPT !.pc = IF agg.op = "get_path_diagnostics"
                                 THEN "trace" ELSE "get_throughput"]
  /\ UNCHANGED <<chat, health, detectvars, tracevars, classifyvars, paths, bundle>>

\* await self.traceroute.trace(source, destination) returns
trace_returns ==
  /\ agg.pc = "trace"
  /\ \E result_hops \in TraceResults : hops' = result_hops
  /\ fetches' = Append(fetches, Fetch("trace", 0, FALSE))
  /\ agg' = [agg EXCEPT !.pc = "get_throughput"]
  /\ UNCHANGED <<chat, healthvars, detectvars, new_hops, traced, trace_out,
                 classifyvars, paths, bundle>>

\* await self.perfsonar.get_throughput(source, destination, hours) returns
get_throughput_returns ==
  /\ agg.pc = "get_throughput"
  /\ \E values \in ThroughputWindows : measurements' = mock_throughput(values)
  /\ fetches' = Append(fetches, Fetch("get_throughput", Hours(agg.op), FALSE))
  /\ agg' = [agg EXCEPT !.pc = "get_latency"]
  /\ UNCHANGED <<chat, healthvars, latency_data, anomalies, detected, tracevars,
                 classifyvars, paths, bundle>>

\* await self.perfsonar.get_latency(source, destination, hours) returns; the
\* function runs detect_all and returns
get_latency_returns ==
  /\ agg.pc = "get_latency"
  /\ \E values \in LatencyWindows :
       LET latency_samples == mock_latency(values)
           found == detect_all(measurements, latency_samples)
       IN /\ latency_data' = latency_samples
          /\ anomalies' = found
          /\ bundle' = Some(IF agg.op = "get_path_diagnostics"
                              THEN Diagnostics(path, hops, found, measurements,
                                               latency_samples)
                              ELSE PathLines(agg.source, agg.destination, path)
                                   \o AnomalyLines(found))
  /\ fetches' = Append(fetches, Fetch("get_latency", Hours(agg.op), FALSE))
  /\ agg' = [agg EXCEPT !.pc = "returned"]
  /\ UNCHANGED <<chat, healthvars, measurements, detected, tracevars,
                 classifyvars, paths>>

\* await self.perfsonar.get_network_paths() returns inside get_network_summary;
\* format_telemetry_context writes the overview and returns
get_network_paths_returns ==
  /\ agg.pc = "get_network_paths"
  /\ \E all_paths \in NetworkPathLists :
       /\ paths' = all_paths
       /\ bundle' = Some(SummaryLines(get_network_summary(all_paths)))
  /\ fetches' = Append(fetches, Fetch("get_network_paths", 0, FALSE))
  /\ agg' = [agg EXCEPT !.pc = "returned"]
  /\ UNCHANGED <<chat, healthvars, detectvars, tracevars, classifyvars>>

\* mutant: the exception is swallowed and what was gathered so far is returned
fetch_raises_PartialBundle ==
  /\ agg.pc \in Raising
  /\ fetches' = Append(fetches, Fetch(agg.pc, IF agg.pc \in {"get_throughput", "get_latency"} THEN Hours(agg.op) ELSE 0, TRUE))
  /\ agg' = [agg EXCEPT !.pc = "returned"]
  /\ bundle' = Some([path |-> path, traceroute |-> hops])
  /\ UNCHANGED <<chat, healthvars, detectvars, tracevars, classifyvars, paths>>

\* the awaited sub-fetch raises: neither function catches, the exception leaves
\* the function and nothing is returned
fetch_raises ==
  /\ agg.pc \in Raising
  /\ fetches' = Append(fetches, Fetch(agg.pc, IF agg.pc \in {"get_throughput", "get_latency"} THEN Hours(agg.op) ELSE 0, TRUE))
  /\ agg' = [agg EXCEPT !.pc = "raised"]
  /\ UNCHANGED <<chat, healthvars, detectvars, tracevars, classifyvars, paths, bundle>>

AggNext ==
  \/ \E source \in {"sdsc"}, destination \in {"chi"} :
       GetPathDiagnostics(source, destination)
  \/ \E source \in {NoneId, "", "sdsc"}, destination \in {NoneId, "chi"} :
       FormatTelemetryContext(source, destination)
  \/ get_path_health_returns
  \/ trace_returns
  \/ get_throughput_returns
  \/ get_latency_returns
  \/ get_network_paths_returns
  \/ fetch_raises

AggSpec == AggInit /\ [][AggNext]_vars

\* ---- the streaming route ---------------------------------------------------
\* POST /chat/stream requests running against the store, with conversations
\* deleted under them, for one configuration of the two history settings
StreamInit ==
  /\ Init
  /\ context_window_size = MaxWindow
  /\ max_conversation_history = MaxHistory

StreamNext ==
  \/ \E r \in Tasks, id \in KnownIds \cup {NoneId}, q \in Requests,
        failed \in BOOLEAN :
       stream_message(r, id, q.message, q.source, q.destination, q.model, failed)
  \/ \E r \in Tasks : stream_token(r)
  \/ \E r \in Tasks : stream_end(r)
  \/ \E r \in Tasks : stream_commit(r)
  \/ \E r \in Tasks : stream_raise(r)
  \/ \E r \in Tasks : stream_cancel(r)
  \/ \E id \in KnownIds : delete_conversation(id)

StreamSpec == StreamInit /\ [][StreamNext]_vars

\* ---- steps, as the properties below name them ------------------------------
\* a step in which a build_llm_messages call ran
BuildStep == nturns' = nturns + 1
\* a step in which a record_assistant_response call ran
RecordStep ==
  /\ last'.op = "record_assistant_response"
  /\ ndirect' # ndirect \/ task' # task
\* the history a conversation object had before the step (none when the step made it)
Before(o) == IF o <= nconv THEN conv_messages[o] ELSE <<>>
\* the windowed history of a built list: what lies between the system message
\* and the final user message
WindowOf(messages) == SubSeq(messages, 2, Len(messages) - 1)
Contains(msgs, m) == \E i \in 1..Len(msgs) : msgs[i] = m

\* C1: after build_llm_messages with an explicit id that is not in the store,
\* get_conversation(that id) returns a conversation whose history holds the
\* user turn just committed, and nothing is left stored under a generated id.
C1_StoredUnderCallerId ==
  (last.op = "build_llm_messages" /\ ~last.found) =>
    LET conv == get_conversation(conversations, last.conversation_id) IN
    /\ conv # 0
    /\ Contains(conv_messages[conv], Message("user", last.text))
    /\ CreateKey(last.obj) \notin DOMAIN conversations

\* C2: of two consecutive build_llm_messages calls on one id, the second's
\* windowed history contains the first call's user message and has at most
\* context_window_size entries.
C2_SecondWindowHoldsFirstTurn ==
  [][(BuildStep /\ last.op = "build_llm_messages"
        /\ last'.conversation_id = last.conversation_id)
     => /\ Contains(WindowOf(last'.messages), Message("user", last.text))
        /\ Len(WindowOf(last'.messages)) <= context_window_size]_vars

\* C3: the turns on one conversation are serialized: in a conversation written
\* only by chat turns, the user message of every turn that has its reply is
\* immediately followed by that turn's reply.
C3_TurnsSerialized ==
  \A o \in 1..nconv :
    (\A j \in 1..Len(appended[o]) : appended[o][j].turn # 0) =>
      \A i \in 1..Len(appended[o]) :
        (/\ appended[o][i].role = "user"
         /\ \E j \in 1..Len(appended[o]) :
              /\ appended[o][j].role = "assistant"
              /\ appended[o][j].turn = appended[o][i].turn)
        => /\ i < Len(appended[o])
           /\ appended[o][i + 1].role = "assistant"
           /\ appended[o][i + 1].turn = appended[o][i].turn

\* the n newest elements of a sequence (n <= Len(s))
Newest(s, n) == [i \in 1..n |-> s[Len(s) - n + i]]
Min(a, b) == IF a <= b THEN a ELSE b

\* C4: after every record_assistant_response on a conversation its history
\* holds at most max_conversation_history messages, and once more than that
\* many were appended in total it holds exactly the max_conversation_history
\* most recently appended ones, in their order.
C4_BoundedAfterRecord ==
  (last.op = "record_assistant_response" /\ last.found) =>
    LET o == last.obj IN
    /\ Len(conv_messages[o]) <= max_conversation_history
    /\ Len(appended[o]) > max_conversation_history =>
         conv_messages[o] = Plain(Newest(appended[o], max_conversation_history))

C4_Witness ==
  /\ last.op = "record_assistant_response" /\ last.found
  /\ max_conversation_history >= 1
  /\ Len(appended[last.obj]) > max_conversation_history
  /\ Len(conv_messages[last.obj]) = max_conversation_history

\* C5: the stored history of every conversation is a contiguous suffix of the
\* sequence of all messages ever appended to it, in append order.
C5_HistoryIsSuffixOfAppended ==
  \A o \in 1..nconv :
    /\ Len(conv_messages[o]) <= Len(appended[o])
    /\ conv_messages[o] = Plain(Newest(appended[o], Len(conv_messages[o])))

C5_Witness ==
  \E o \in 1..nconv :
    /\ Len(conv_messages[o]) >= 2
    /\ Len(conv_messages[o]) < Len(appended[o])
    /\ conv_messages[o][1] # conv_messages[o][2]

\* C6: build_llm_messages returns one system message, then the last
\* min(context_window_size, history length) messages of the history as it was
\* before the call, then one user message with the supplied text; exactly
\* [system, user] for a conversation with no history.
C6_BuiltListIsSystemWindowUser ==
  [][BuildStep =>
     LET before == Before(last'.obj)
         n == Min(context_window_size, Len(before))
         messages == last'.messages
     IN /\ Len(messages) = n + 2
        /\ messages[1].role = "system"
        /\ WindowOf(messages) = Newest(before, n)
        /\ messages[Len(messages)] = Message("user", last'.text)]_vars

\* C7: build_llm_messages changes a conversation's history only by appending
\* one user message; record_assistant_response appends one assistant message
\* and then removes exactly the oldest message_count - max_conversation_history
\* messages when that number is positive, nothing otherwise.
C7_TrimOnlyAtAssistantTurn ==
  [][/\ BuildStep =>
          \A o \in 1..nconv' :
            conv_messages'[o] =
              IF o = last'.obj THEN Before(o) \o <<Message("user", last'.text)>>
              ELSE conv_messages[o]
     /\ (RecordStep /\ last'.found) =>
          \A o \in 1..nconv :
            LET grown == conv_messages[o] \o <<Message("assistant", last'.text)>>
                excess == Len(grown) - max_conversation_history
            IN conv_messages'[o] =
                 IF o # last'.obj THEN conv_messages[o]
                 ELSE IF excess > 0 THEN Newest(grown, Len(grown) - excess)
                 ELSE grown]_vars

C7_Witness ==
  /\ last.op = "record_assistant_response" /\ last.found
  /\ max_conversation_history >= 1
  /\ Len(appended[last.obj]) >= max_conversation_history + 2

\* a step in which the store was called directly, outside a request
DirectStep == ndirect' # ndirect

\* C8: an unknown conversation id is an absent result: get_conversation
\* returns None; delete_conversation returns true iff a record existed and
\* afterwards the id is not in the store; get, delete and
\* record_assistant_response on an unknown id leave the store unchanged and
\* create no conversation.
C8_UnknownIdIsAbsentResult ==
  [][LET id == last'.conversation_id
         known == id \in DOMAIN conversations
     IN /\ (DirectStep /\ last'.op = "get_conversation") =>
             /\ last'.found <=> known
             /\ ~known => last'.obj = 0
        /\ (DirectStep /\ last'.op = "delete_conversation") =>
             /\ last'.found <=> known
             /\ id \notin DOMAIN conversations'
        /\ (/\ \/ DirectStep /\ last'.op \in {"get_conversation", "delete_conversation"}
               \/ RecordStep
            /\ ~known) =>
             /\ ~last'.found
             /\ UNCHANGED <<conversations, nconv, conv_id, conv_messages>>]_vars

C8_Witness ==
  /\ last.op = "delete_conversation"
  /\ ~last.found
  /\ last.conversation_id \notin DOMAIN conversations
  /\ DOMAIN conversations # {}

\* the fixed system texts of the templates
SystemTexts == {<<"NETWORK_DIAGNOSTICS_SYSTEM_PROMPT">>,
                <<"TELEMETRY_ANALYSIS_SYSTEM_PROMPT">>,
                <<"ANOMALY_EXPLANATION_SYSTEM_PROMPT">>,
                <<"REMEDIATION_SYSTEM_PROMPT">>}

\* C9: when format_telemetry_context raises, build_llm_messages still returns
\* the list (a system message holding only the template's system text, then
\* the window, then the user message) and still appends the user turn.
C9_TelemetryFailureIsNotFatal ==
  [][(BuildStep /\ last'.failed) =>
     LET messages == last'.messages
         before == Before(last'.obj)
         window == WindowOf(messages)
     IN /\ Len(messages) >= 2
        /\ messages[1].role = "system"
        /\ messages[1].content \in SystemTexts
        /\ Len(window) <= Len(before)
        /\ window = Newest(before, Len(window))
        /\ messages[Len(messages)] = Message("user", last'.text)
        /\ conv_messages'[last'.obj] = before \o <<Message("user", last'.text)>>]_vars

C9_Witness ==
  /\ last.op = "build_llm_messages"
  /\ last.failed
  /\ Len(last.messages) >= 3

CountRole(msgs, role) == Cardinality({i \in 1..Len(msgs) : msgs[i].role = role})

\* C10: build_llm_messages never appends a message with role assistant; each
\* record_assistant_response on an existing conversation appends exactly one
\* assistant message with the supplied content, as the newest message.
C10_AssistantOnlyByCommit ==
  [][/\ BuildStep =>
          \A o \in 1..nconv' :
            /\ CountRole(conv_messages'[o], "assistant")
                 = CountRole(Before(o), "assistant")
            /\ o <= nconv =>
                 CountRole(appended'[o], "assistant")
                   = CountRole(appended[o], "assistant")
     /\ (RecordStep /\ last'.found) =>
          LET o == last'.obj IN
          /\ Len(appended'[o]) = Len(appended[o]) + 1
          /\ SubSeq(appended'[o], 1, Len(appended[o])) = appended[o]
          /\ Plain(appended'[o])[Len(appended'[o])] = Message("assistant", last'.text)
          /\ conv_messages'[o] # <<>> =>
               conv_messages'[o][Len(conv_messages'[o])]
                 = Message("assistant", last'.text)
          /\ CountRole(conv_messages'[o], "assistant")
               <= CountRole(conv_messages[o], "assistant") + 1]_vars

C10_Witness ==
  /\ last.op = "record_assistant_response" /\ last.found
  /\ Len(conv_messages[last.obj]) >= 2
  /\ conv_messages[last.obj][Len(conv_messages[last.obj])]
       = Message("assistant", last.text)
  /\ conv_messages[last.obj][Len(conv_messages[last.obj]) - 1].role = "user"

\* the assistant entries that a turn has in the log of appends
AssistantEntries(log, turn) ==
  {<<o, i>> \in (1..Len(log)) \X (1..(2 * MaxCalls)) :
     /\ i <= Len(log[o])
     /\ log[o][i].role = "assistant"
     /\ log[o][i].turn = turn}
\* the first k tokens of the stream, concatenated in order
RECURSIVE TokensJoined(_)
TokensJoined(k) == IF k = 0 THEN <<>> ELSE TokensJoined(k - 1) \o StreamTokens[k]

\* C11: a streaming request commits at most one assistant turn, only when the
\* token producer has ended normally, and with the in-order concatenation of
\* the tokens received as its content; when the stream raises or the caller
\* goes away, no assistant turn is committed and no history changes.
C11_StreamCommitsOnlyWholeReply ==
  [][/\ \A r \in Tasks :
          task[r].pc \in {"stream", "done"} =>
            LET turn == task[r].turn
                received == Len(task[r].full_response)
            IN /\ AssistantEntries(appended, turn) = {}
               /\ AssistantEntries(appended', turn) # {} =>
                    /\ task[r].pc = "done"
                    /\ task'[r].pc = "idle"
                    /\ \A e \in AssistantEntries(appended', turn) :
                         appended'[e[1]][e[2]].content = TokensJoined(received)
               /\ (task'[r].pc = "idle" /\ task[r].pc = "stream") =>
                    /\ appended' = appended
                    /\ conv_messages' = conv_messages
               /\ (task'[r].pc = "idle" /\ last'.op = "cancel") =>
                    /\ appended' = appended
                    /\ conv_messages' = conv_messages
     /\ \A turn \in 1..nturns' :
          Cardinality(AssistantEntries(appended', turn)) <= 1]_vars

C11_Witness ==
  /\ last.op = "record_assistant_response" /\ last.found
  /\ last.text = TokensJoined(Len(StreamTokens))
  /\ Len(conv_messages[last.obj]) >= 2
  /\ conv_messages[last.obj][Len(conv_messages[last.obj])]
       = Message("assistant", last.text)

\* a task is inside a transport call
InTransport(t) == t.pc \in {"llm", "stream", "done"}

\* C12: a chat request naming a model identifier outside {qwen3-vl, glm-4.7,
\* gpt-oss} ends with HTTP 400 and the transport is not invoked for it: no
\* task enters chat_completion or stream_completion in that step.
C12_InvalidModelRejectedBeforeTransport ==
  [][(/\ BuildStep
      /\ last'.model # NoneId
      /\ last'.model \notin {"qwen3-vl", "glm-4.7", "gpt-oss"})
     => /\ last'.status = 400
        /\ \A r \in Tasks : InTransport(task'[r]) => task'[r] = task[r]]_vars

C12_Witness ==
  /\ last.op = "build_llm_messages"
  /\ last.model = "gpt-5"
  /\ last.status = 400
  /\ \A r \in Tasks : ~InTransport(task[r])

\* C13: when chat_completion raises, the request ends with HTTP 502 (not 400,
\* not a 200 with empty content) and no message is recorded for that turn:
\* every history is as it was.
C13_TransportFailureIs502 ==
  [][(/\ \E r \in Tasks : task[r].pc = "llm" /\ task'[r].pc = "idle"
      /\ last'.failed)
     => /\ last'.status = 502
        /\ last'.status \notin {200, 400}
        /\ last'.op # "record_assistant_response"
        /\ conv_messages' = conv_messages
        /\ appended' = appended]_vars

C13_Witness ==
  /\ last.op = "chat_completion"
  /\ last.failed
  /\ last.status = 502
  /\ \E o \in 1..nconv :
       /\ conv_id[o] = last.conversation_id
       /\ appended[o] # <<>>
       /\ appended[o][Len(appended[o])].role = "user"
       /\ conv_messages[o][Len(conv_messages[o])].role = "user"

Above(m, limit) == m.given /\ m.val > limit
Below(m, limit) == m.given /\ m.val < limit

\* C15: health_status is critical when packet loss > 1.0, else degraded when
\* packet loss > 0.5, else warning when latency > 100 or throughput < 1.0,
\* else healthy, for every combination of given and missing values; so with
\* packet loss > 0.5 no other latency or throughput changes the result.
C15_HealthByStrictPrecedence ==
  health # "none" =>
    /\ health = IF Above(path.packet_loss_pct, 10) THEN "critical"
                ELSE IF Above(path.packet_loss_pct, 5) THEN "degraded"
                ELSE IF Above(path.latency_ms, 100) \/ Below(path.throughput_gbps, 10)
                THEN "warning"
                ELSE "healthy"
    /\ Above(path.packet_loss_pct, 5) =>
         \A t \in Optional(ThroughputValues), l \in Optional(LatencyValues) :
           health_status([path EXCEPT !.throughput_gbps = t, !.latency_ms = l]) = health

\* C16: a path with all three metrics missing is healthy, and a path with a
\* given throughput below 1.0, exactly 0 included, and no packet-loss rule
\* firing is warning.
C16_NullNeverZeroAndZeroIsAValue ==
  health # "none" =>
    /\ (/\ ~path.throughput_gbps.given
        /\ ~path.latency_ms.given
        /\ ~path.packet_loss_pct.given) => health = "healthy"
    /\ (/\ path.throughput_gbps.given
        /\ path.throughput_gbps.val < 10
        /\ ~Above(path.packet_loss_pct, 5)) => health = "warning"

\* C17: for a sample list of length 0 to 4 both detectors return the empty
\* list, whatever the values.
C17_FewSamplesGiveNoAnomalies ==
  (detected \in {"throughput", "latency"} /\ Len(measurements) <= 4)
    => anomalies = <<>>

C17_Witness ==
  /\ detected = "throughput"
  /\ Len(measurements) = 4
  /\ measurements[4].value = 0
  /\ \A i \in 1..3 : measurements[i].value = 12
  /\ anomalies = <<>>

\* the anomalies of a list that have a given severity, in the list's order
OfSeverity(list, severity) ==
  LET Has(a) == a.severity = severity IN SelectSeq(list, Has)
Severities == {"critical", "high", "medium", "low"}
Rank(severity) ==
  IF severity = "critical" THEN 1 ELSE IF severity = "high" THEN 2
  ELSE IF severity = "medium" THEN 3 ELSE 4

\* C18: detect_all returns a permutation of the throughput detector's output
\* followed by the latency detector's output, ordered critical, high, medium,
\* low, in which anomalies of equal severity keep their relative order
\* (throughput before latency, and sample order within one detector).
C18_DetectAllSortedAndStable ==
  detected = "all" =>
    LET combined == detect_throughput_anomalies(measurements)
                    \o detect_latency_anomalies(latency_data)
    IN /\ Len(anomalies) = Len(combined)
       /\ \A i \in 1..Len(anomalies), j \in 1..Len(anomalies) :
            i < j => Rank(anomalies[i].severity) <= Rank(anomalies[j].severity)
       /\ \A severity \in Severities :
            OfSeverity(anomalies, severity) = OfSeverity(combined, severity)

C18_Witness ==
  /\ detected = "all"
  /\ anomalies # detect_throughput_anomalies(measurements)
                  \o detect_latency_anomalies(latency_data)
  /\ \E i \in 1..Len(anomalies), j \in 1..Len(anomalies) :
       /\ i < j
       /\ anomalies[i].severity = anomalies[j].severity
       /\ anomalies[i].anomaly_type = "throughput_drop"
       /\ anomalies[j].anomaly_type = "latency_spike"
  /\ \E i \in 1..Len(anomalies), j \in 1..Len(anomalies) :
       /\ i < j
       /\ anomalies[i].severity = anomalies[j].severity
       /\ anomalies[i].anomaly_type = anomalies[j].anomaly_type
       /\ anomalies[i].detected_at < anomalies[j].detected_at

\* the sample list as numbers, its length and its total
SampleAt(i) == measurements[i].value
SampleCount == Len(measurements)
SampleTotal ==
  LET RECURSIVE Upto(_)
      Upto(i) == IF i = 0 THEN 0 ELSE Upto(i - 1) + SampleAt(i)
  IN Upto(SampleCount)
\* sum over the samples of (x - mean)^2, times SampleCount^2
SpreadTimesCountSquared ==
  LET RECURSIVE Upto(_)
      Upto(i) == IF i = 0 THEN 0
                 ELSE Upto(i - 1) + (SampleCount * SampleAt(i) - SampleTotal)
                                    * (SampleCount * SampleAt(i) - SampleTotal)
  IN Upto(SampleCount)
\* the positions a detector evaluates
Evaluated == {i \in 1..SampleCount : i > SampleCount - 10}
\* (value - mean) / mean * 100 compared with a number of percent; the percent
\* counts as 0 when the mean is not positive
SpikeOver(i, pct) ==
  IF SampleTotal > 0
  THEN (SampleCount * SampleAt(i) - SampleTotal) * 100 > pct * SampleTotal
  ELSE 0 > pct
SpikeAtLeast(i, pct) ==
  IF SampleTotal > 0
  THEN (SampleCount * SampleAt(i) - SampleTotal) * 100 >= pct * SampleTotal
  ELSE 0 >= pct
DropOver(i, pct) ==
  IF SampleTotal > 0
  THEN (SampleTotal - SampleCount * SampleAt(i)) * 100 > pct * SampleTotal
  ELSE 0 > pct
DropAtLeast(i, pct) ==
  IF SampleTotal > 0
  THEN (SampleTotal - SampleCount * SampleAt(i)) * 100 >= pct * SampleTotal
  ELSE 0 >= pct
\* |z-score| > 2 with the sample standard deviation; the z-score counts as 0
\* when the deviation is 0
FarFromMean(i) ==
  /\ SpreadTimesCountSquared > 0
  /\ (SampleCount * SampleAt(i) - SampleTotal) * (SampleCount * SampleAt(i) - SampleTotal)
       * (SampleCount - 1) > 4 * SpreadTimesCountSquared
ZBelowMinus2(i) == FarFromMean(i) /\ SampleCount * SampleAt(i) < SampleTotal
ZAbove2(i) == FarFromMean(i) /\ SampleCount * SampleAt(i) > SampleTotal
AnomaliesAt(i) == {k \in 1..Len(anomalies) : anomalies[k].detected_at = i}

C20_OnlyLastTenEvaluated ==
  detected \in {"throughput", "latency"} =>
    /\ Len(anomalies) <= 10
    /\ \A k \in 1..Len(anomalies) :
         /\ anomalies[k].detected_at \in Evaluated
         /\ anomalies[k].current_value = SampleAt(anomalies[k].detected_at)
    /\ \A i \in 1..SampleCount : i <= SampleCount - 10 => AnomaliesAt(i) = {}

\* eleven samples whose first is a drop of more than 20 % below the mean
C20_Witness ==
  /\ detected = "throughput"
  /\ SampleCount = 11
  /\ DropOver(1, 20)
  /\ \A i \in 2..SampleCount : ~DropOver(i, 20)
  /\ anomalies = <<>>

\* the hops of the list that answered
Responding(result_hops) ==
  LET Answers(h) == h.is_responding IN SelectSeq(result_hops, Answers)

\* the hop at position i answered after a time more than 20 ms above the time
\* of the hop right before it
RoseOver20(result_hops, i) ==
  /\ i > 1
  /\ result_hops[i].is_responding
  /\ result_hops[i].rtt_ms.given
  /\ result_hops[i - 1].rtt_ms.given
  /\ result_hops[i].rtt_ms.val > result_hops[i - 1].rtt_ms.val + 20

\* C21: problematic_hops is, in hop order, exactly the hops that did not answer
\* together with the answering hops whose RTT is more than 20 ms above the RTT
\* of the hop right before them; the first hop is listed only when it did not
\* answer.
C21_ProblematicHopsAreTimeoutsAndRises ==
  traced = "problematic_hops" =>
    LET Listed(h) == \/ ~h.is_responding
                     \/ RoseOver20(hops, h.hop_number)
    IN trace_out = SelectSeq(hops, Listed)

\* C22: total_rtt_ms is the RTT of the last hop that answered, also when hops
\* after it did not answer, and is missing only when no hop answered.
C22_TotalRttIsLastRespondingHop ==
  traced = "total_rtt_ms" =>
    LET answered == Responding(hops)
    IN IF answered = <<>>
         THEN trace_out = NoMetric
         ELSE trace_out = answered[Len(answered)].rtt_ms

\* the address is the ip_address of some hop of the list
OnRoute(address, result_hops) ==
  \E i \in 1..Len(result_hops) : result_hops[i].ip_address = address

\* C23: analyze_path_change reports as added exactly the addresses on the new
\* route and not on the old one, as removed exactly those on the old route and
\* not on the new one, and a change exactly when some address is on one route
\* only; a route compared with itself or with a reordering of itself is
\* unchanged, and exchanging the two routes exchanges added and removed.
C23_PathChangeIsSetDifference ==
  traced = "analyze_path_change" =>
    /\ \A a \in Addresses :
         /\ a \in trace_out.hops_added <=> (OnRoute(a, new_hops) /\ ~OnRoute(a, hops))
         /\ a \in trace_out.hops_removed <=> (OnRoute(a, hops) /\ ~OnRoute(a, new_hops))
    /\ trace_out.hops_added \cup trace_out.hops_removed \subseteq Addresses
    /\ trace_out.path_changed <=>
         \E a \in Addresses : OnRoute(a, hops) # OnRoute(a, new_hops)
    /\ (\A a \in Addresses : OnRoute(a, hops) <=> OnRoute(a, new_hops))
         => ~trace_out.path_changed
    /\ LET swapped == analyze_path_change(new_hops, hops)
       IN /\ swapped.hops_added = trace_out.hops_removed
          /\ swapped.hops_removed = trace_out.hops_added
          /\ swapped.path_changed = trace_out.path_changed

C23_Witness ==
  /\ traced = "analyze_path_change"
  /\ Len(hops) = 2
  /\ Len(new_hops) = 2
  /\ hops[1].ip_address = "10.0.0.1"
  /\ hops[2].ip_address = "10.0.0.2"
  /\ new_hops[1].ip_address = "10.0.0.2"
  /\ new_hops[2].ip_address = "10.0.0.3"
  /\ trace_out.path_changed
  /\ trace_out.hops_added = {"10.0.0.3"}
  /\ trace_out.hops_removed = {"10.0.0.1"}

\* the words of QueryWords that hold, in some case, a keyword of each list
AnomalyWords == {"Anomaly", "anomaly", "spikes"}
RemediationWords == {"Fix", "fix", "transaction", "resolve"}
TelemetryWords == {"DATA", "metrics"}
HasWordOf(text, words) == \E i \in 1..Len(text) : text[i] \in words

\* C24: classify_query returns one of the four template names for every
\* message; a message holding an anomaly keyword in any case gives
\* anomaly_explanation, otherwise one holding a remediation keyword gives
\* remediation, otherwise one holding a telemetry keyword gives
\* telemetry_analysis, and every other message gives general_diagnostics.
C24_ClassifyByFirstMatch ==
  template # "none" =>
    /\ template \in TemplateNames
    /\ template = classify_query(query)
    /\ template =
         IF HasWordOf(query, AnomalyWords) THEN "anomaly_explanation"
         ELSE IF HasWordOf(query, RemediationWords) THEN "remediation"
         ELSE IF HasWordOf(query, TelemetryWords) THEN "telemetry_analysis"
         ELSE "general_diagnostics"

C24_Witness ==
  /\ query = <<"Fix", "Anomaly">>
  /\ template = "anomaly_explanation"

\* the conversation objects the store holds
Stored(store) == {store[k] : k \in DOMAIN store}

\* C27: in every reachable state, between a user turn and its reply and after
\* failed or rejected turns included, the history of every stored conversation
\* holds at most max_conversation_history messages.
C27_HistoryAlwaysBounded ==
  \A o \in Stored(conversations) : Len(conv_messages[o]) <= max_conversation_history

\* ContextManager.list_conversations: the id of every stored Conversation, in
\* the dict's insertion order, which is the order the objects were made in
list_conversations(store, ids) ==
  LET Held(o) == o \in Stored(store)
      objects == SelectSeq([o \in 1..Len(ids) |-> o], Held)
  IN [i \in 1..Len(objects) |-> ids[objects[i]]]

\* C29: the ids list_conversations reports are pairwise distinct, and for each
\* of them get_conversation returns the conversation with that id and
\* delete_conversation would find it and return true.
C29_ListedIdsAreKeys ==
  LET listed == list_conversations(conversations, conv_id) IN
  /\ \A i, j \in 1..Len(listed) : i # j => listed[i] # listed[j]
  /\ \A i \in 1..Len(listed) :
       /\ get_conversation(conversations, listed[i]) # 0
       /\ conv_id[get_conversation(conversations, listed[i])] = listed[i]
       /\ listed[i] \in DOMAIN conversations

\* C30: a chat request rejected with HTTP 400 for an unrecognized model leaves
\* the store as it was: no conversation is created and no message is appended.
C30_RejectedRequestLeavesStore ==
  [][(BuildStep /\ last'.status = 400)
     => /\ conversations' = conversations
        /\ nconv' = nconv
        /\ conv_messages' = conv_messages
        /\ appended' = appended]_vars

\* the lines of a text that are anomaly entries
Entries(lines) == LET IsEntry(line) == line[1] = "-" IN SelectSeq(lines, IsEntry)
\* the first word of every line
Labels(lines) == [i \in 1..Len(lines) |-> lines[i][1]]
\* the sub-fetches awaited that ask for one path's data
PerPath(log) ==
  LET OfPath(f) == f.fetch \in {"get_path_health", "trace", "get_throughput", "get_latency"}
  IN SelectSeq(log, OfPath)

\* C25: with both endpoints given format_telemetry_context writes the path
\* header, status, throughput, latency, packet loss and jitter lines in that
\* order, followed by at most 3 anomaly entries, which are the first 3 of what
\* detect_all returns for the windows fetched over 6 hours; with an endpoint
\* missing it writes only the summary counts and fetches nothing of a path.
C25_ContextBlockThenThreeAnomalies ==
  (agg.op = "format_telemetry_context" /\ agg.pc = "returned") =>
    LET lines == bundle.val IN
    IF agg.source \notin {NoneId, ""} /\ agg.destination \notin {NoneId, ""}
    THEN LET sorted == detect_all(measurements, latency_data)
             entries == Entries(lines)
             shown == Min(3, Len(sorted))
         IN /\ SubSeq(Labels(lines), 1, 6) =
                 <<"**Path**", "**Status**", "**Throughput**", "**Latency**",
                   "**Packet Loss**", "**Jitter**">>
            /\ lines[1] = <<"**Path**", agg.source, agg.destination>>
            /\ lines[2][2] = upper(health_status(path))
            /\ Len(entries) = shown
            /\ Len(entries) <= 3
            /\ \A i \in 1..shown :
                 /\ entries[i] = <<"-">> \o format_for_llm(sorted[i])
                 /\ lines[Len(lines) - shown + i] = entries[i]
            /\ Len(lines) = 6 + (IF sorted = <<>> THEN 0 ELSE 1 + shown)
            /\ \A i \in 1..Len(fetches) :
                 fetches[i].fetch \in {"get_throughput", "get_latency"}
                   => fetches[i].hours = 6
    ELSE /\ lines = <<<<"**Network Overview**", ToString(Len(paths))>>,
                      <<"- Healthy:", ToString(CountStatus(paths, "healthy"))>>,
                      <<"- Warning:", ToString(CountStatus(paths, "warning"))>>,
                      <<"- Degraded:", ToString(CountStatus(paths, "degraded"))>>,
                      <<"- Critical:", ToString(CountStatus(paths, "critical"))>>>>
         /\ PerPath(fetches) = <<>>
         /\ measurements = <<>> /\ latency_data = <<>> /\ path = NoPath

C25_Witness ==
  /\ agg.op = "format_telemetry_context"
  /\ agg.pc = "returned"
  /\ agg.source = "sdsc"
  /\ agg.destination = "chi"
  /\ Len(anomalies) > 3
  /\ Len(Entries(bundle.val)) = 3
  /\ anomalies[1].severity # anomalies[4].severity

\* C26: get_path_diagnostics returns its bundle of path, traceroute, anomalies
\* and measurement counts exactly when its four sub-fetches were awaited and
\* none raised; when one raises the call ends there with the exception and
\* returns nothing.
C26_BundleIffNoFetchRaises ==
  agg.op = "get_path_diagnostics" =>
    LET raised == \E i \in 1..Len(fetches) : fetches[i].raised IN
    /\ agg.pc = "returned" <=>
         (/\ [i \in 1..Len(fetches) |-> fetches[i].fetch] =
               <<"get_path_health", "trace", "get_throughput", "get_latency">>
          /\ ~raised)
    /\ agg.pc = "returned" =>
         /\ bundle.some
         /\ DOMAIN bundle.val = {"path", "traceroute", "anomalies", "measurement_count"}
         /\ bundle.val.path.health_status = health_status(path)
         /\ bundle.val.traceroute = hops
         /\ bundle.val.anomalies = detect_all(measurements, latency_data)
         /\ bundle.val.measurement_count =
              [throughput |-> Len(measurements), latency |-> Len(latency_data)]
    /\ raised =>
         /\ agg.pc = "raised"
         /\ fetches[Len(fetches)].raised
         /\ \A i \in 1..(Len(fetches) - 1) : ~fetches[i].raised
    /\ agg.pc # "returned" => bundle = None

C26_Witness ==
  /\ agg.op = "get_path_diagnostics"
  /\ agg.pc = "raised"
  /\ Len(fetches) = 3
  /\ fetches[3] = Fetch("get_throughput", 24, TRUE)
  /\ path \in PathHealths
  /\ bundle = None

\* the timestamps of the n latest samples of a window
LatestTimestamps(window, n) ==
  {window[i].timestamp : i \in {i \in 1..Len(window) :
     Cardinality({j \in 1..Len(window) : window[j].timestamp > window[i].timestamp}) < n}}

\* C28: of a window the aggregator fetched and passed to detect_all, the
\* samples evaluated are the 10 with the latest timestamps: every anomaly
\* reported carries one of the 10 latest timestamps of its window.
C28_AnomaliesAmongTenLatest ==
  agg.pc = "returned" =>
    \A k \in 1..Len(anomalies) :
      anomalies[k].detected_at \in
        LatestTimestamps(IF anomalies[k].anomaly_type = "throughput_drop"
                           THEN measurements ELSE latency_data, 10)

====
